---------------------------- MODULE Spec2Model ----------------------------
(***************************************************************************)
(* A model of good_first_issues/utils/__init__.py: the credential store    *)
(* (add_credential, check_credential), the REST rate-limit reporter        *)
(* (gh_rate_limit), the limit resolver (identify_limit), the link          *)
(* annotator (add_anchor_tag) and the local preview server (web_server).   *)
(*                                                                         *)
(* Strings are sequences of one-character strings (tokens, file contents)  *)
(* or of lexical atoms (HTML).  The platform is POSIX: os.linesep is "\n". *)
(***************************************************************************)
EXTENDS Integers, Sequences, FiniteSets, TLC

VARIABLES
    fs,         \* the credential directory on disk: [exists, entries, ino]
    lastOp,     \* the call that ran last: "none" | "add" | "check" | "rate"
    ret,        \* what that call returned or raised
    lastAdd,    \* the most recent add_credential call: [status, tok]
    before,     \* what the most recent add_credential found: [hadCred, hadOther]
    sent,       \* the HTTP requests the last gh_rate_limit call issued
    response,   \* the HTTP response the last gh_rate_limit call received
    procs,      \* concurrent add_credential calls: pid -> [pc, tok, fd, scan, exc]
    chk,        \* a concurrent check_credential call: [pc, fd, ret]
    wlog,       \* order in which concurrent calls flushed their token
    limit,      \* identify_limit's argument limit: [some, val]
    all,        \* identify_limit's argument all
    lim,        \* identify_limit's result: [called, some, val]
    html_data,  \* add_anchor_tag's argument
    apc,        \* how often add_anchor_tag has been applied: "in" | "once" | "twice"
    first,      \* add_anchor_tag(html_data)
    second,     \* add_anchor_tag(first)
    web         \* web_server's run: see WebInit

vars == <<fs, lastOp, ret, lastAdd, before, sent, response, procs, chk, wlog,
          limit, all, lim, html_data, apc, first, second, web>>

credVars   == <<fs, lastOp, ret, lastAdd, before, sent, response>>
concVars   == <<procs, chk, wlog>>
limitVars  == <<limit, all, lim>>
anchorVars == <<html_data, apc, first, second>>

-----------------------------------------------------------------------------
(* Bounds of the model *)

MaxTokenLen == 2
MaxRemaining == 2

-----------------------------------------------------------------------------
(* Strings *)

LF == "\n"
CR == "\r"
Chars == {"a", "b", LF, CR}

RECURSIVE SeqsUpTo(_, _)
SeqsUpTo(S, n) ==
    IF n = 0 THEN {<<>>}
    ELSE LET shorter == SeqsUpTo(S, n - 1)
         IN  shorter \cup {Append(s, c) : s \in shorter, c \in S}

Tokens == SeqsUpTo(Chars, MaxTokenLen)

Drop(s, n) == SubSeq(s, n + 1, Len(s))
Take(s, n) == SubSeq(s, 1, n)

-----------------------------------------------------------------------------
(* The filesystem under credential_dir *)

filename == "good-first-issues"
OtherName == "other"
Names == {filename, OtherName}

NumInodes == 4
InoIds == 0 .. (NumInodes - 1)
NoIno == -1

NoEntries == [n \in Names |-> NoIno]
NoContent == [i \in InoIds |-> <<>>]
NoFs == [exists |-> FALSE, entries |-> NoEntries, ino |-> NoContent]

\* Inodes named by the directory or held open by a file object.
Referenced(f, open) == {f.entries[n] : n \in Names} \cup open

\* Forget the content of inodes nothing refers to any more.
Collect(f, open) ==
    [f EXCEPT !.ino = [i \in InoIds |->
        IF i \in Referenced(f, open) THEN f.ino[i] ELSE <<>>]]

FreshIno(f, open) ==
    CHOOSE i \in InoIds \ Referenced(f, open) :
        \A j \in InoIds \ Referenced(f, open) : i <= j

\* os.path.exists(credential_dir), os.path.exists(credential_file)
ExistsDir(f) == f.exists
ExistsFile(f) == f.exists /\ f.entries[filename] # NoIno

FileContent(f) == f.ino[f.entries[filename]]

\* shutil.rmtree(credential_dir) on an existing directory
Rmtree(f) == NoFs

\* os.mkdir(credential_dir) on a missing directory
Mkdir(f) == [f EXCEPT !.exists = TRUE, !.entries = NoEntries]

\* open(credential_file, "w+"): create the file, or truncate the one there
OpenTruncIno(f, open) ==
    IF f.entries[filename] # NoIno THEN f.entries[filename] ELSE FreshIno(f, open)

OpenTrunc(f, open) ==
    LET i == OpenTruncIno(f, open)
    IN  [f EXCEPT !.entries[filename] = i, !.ino[i] = <<>>]

\* A text-mode file object translates "\n" to os.linesep on writing.
RECURSIVE TextWrite(_)
TextWrite(s) ==
    IF s = <<>> THEN <<>>
    ELSE (IF Head(s) = LF THEN <<LF>> ELSE <<Head(s)>>) \o TextWrite(Tail(s))

\* A file object opened for appending writes at the end of the file.
WriteAtEnd(f, i, data) == [f EXCEPT !.ino[i] = f.ino[i] \o data]

\* The buffered text is flushed, when the file object is closed, by one
\* write at the file object's position, which is 0 after open(..., "w+").
WriteAt0(f, i, data) ==
    [f EXCEPT !.ino[i] = data \o Drop(f.ino[i], Len(data))]

\* A text-mode file object reads "\r\n" and "\r" as "\n" (universal newlines).
RECURSIVE TextRead(_)
TextRead(b) ==
    IF b = <<>> THEN <<>>
    ELSE IF Head(b) = CR
         THEN IF Len(b) >= 2 /\ b[2] = LF
              THEN <<LF>> \o TextRead(Drop(b, 2))
              ELSE <<LF>> \o TextRead(Tail(b))
         ELSE <<Head(b)>> \o TextRead(Tail(b))

\* file.readline(): the text up to and including the first "\n"
RECURSIVE ReadLineStripped(_)
ReadLineStripped(t) ==
    IF t = <<>> \/ Head(t) = LF THEN <<>>
    ELSE <<Head(t)>> \o ReadLineStripped(Tail(t))

RECURSIVE ReadLine(_)
ReadLine(t) ==
    IF t = <<>> THEN <<>>
    ELSE IF Head(t) = LF THEN <<LF>>
    ELSE <<Head(t)>> \o ReadLine(Tail(t))

-----------------------------------------------------------------------------
(* Return values *)

Returned(kind, val) == [kind |-> kind, val |-> val, num |-> 0, exc |-> "none"]
RetNone    == Returned("None", <<>>)
RetFalse   == Returned("False", <<>>)
RetStr(s)  == Returned("str", s)
RetInt(n)  == [kind |-> "int", val |-> <<>>, num |-> n, exc |-> "none"]
Raised(e)  == [kind |-> "raise", val |-> <<>>, num |-> 0, exc |-> e]
NotCalled  == Returned("none", <<>>)

\* Python's truth value of check_credential's result
Truthy(r) == r.kind = "str" /\ r.val # <<>>

-----------------------------------------------------------------------------
(* add_credential and check_credential, run to completion *)

Faults == {"none", "rmtree", "mkdir", "open", "write"}

AddResult(f, r) == [fs |-> Collect(f, {}), ret |-> r]

\* add_credential without the rmtree: the directory is only created when missing.
add_credential_keep_dir(f, credential, fault) ==
    LET f2 == IF ExistsDir(f) THEN f ELSE Mkdir(f)
        f3 == OpenTrunc(f2, {})
    IN  IF fault = "mkdir" THEN AddResult(f, Raised("OSError"))
        ELSE IF fault = "open" THEN AddResult(f2, Raised("OSError"))
        ELSE IF fault = "write" THEN AddResult(f3, Raised("OSError"))
        ELSE AddResult(WriteAt0(f3, f3.entries[filename], TextWrite(credential)),
                       RetNone)

\* fault names the step at which the operating system refuses (permission
\* denied, disk full); the steps before it have taken effect.
add_credential(f, credential, fault) ==
    LET f1 == IF ExistsDir(f) THEN Rmtree(f) ELSE f
        f2 == Mkdir(f1)
        f3 == OpenTrunc(f2, {})
    IN  IF fault = "rmtree" THEN AddResult(f, Raised("OSError"))
        ELSE IF fault = "mkdir" THEN AddResult(f1, Raised("OSError"))
        ELSE IF fault = "open" THEN AddResult(f2, Raised("OSError"))
        ELSE IF fault = "write" THEN AddResult(f3, Raised("OSError"))
        ELSE AddResult(WriteAt0(f3, f3.entries[filename], TextWrite(credential)),
                       RetNone)

\* check_credential that opens the file without asking whether it exists
check_credential_no_test(f) ==
    IF ExistsFile(f) THEN RetStr(ReadLine(TextRead(FileContent(f))))
    ELSE Raised("FileNotFoundError")

\* check_credential that strips the line it read
check_credential_strip(f) ==
    IF ExistsFile(f) THEN RetStr(ReadLineStripped(TextRead(FileContent(f))))
    ELSE RetFalse

check_credential(f) ==
    IF ExistsFile(f) THEN RetStr(ReadLine(TextRead(FileContent(f))))
    ELSE RetFalse

-----------------------------------------------------------------------------
(* gh_rate_limit *)

RateLimitUrl == "https://api.github.com/rate_limit"

NoHeaders == [hasAuth |-> FALSE, auth |-> <<>>]

AuthBearer(token) == <<"b", "e", "a", "r", "e", "r", " ">> \o token

\* f"token {token}"
AuthValue(token) == <<"t", "o", "k", "e", "n", " ">> \o token

request_headers(token) ==
    IF Truthy(token) THEN [hasAuth |-> TRUE, auth |-> AuthValue(token.val)]
    ELSE NoHeaders

\* What requests.get may come back with: a body holding
\* resources.core.remaining, a body without the "resources" key, or no
\* response at all.
Responses ==
    [kind : {"ok"}, remaining : 0 .. MaxRemaining]
        \cup {[kind |-> "no_resources", remaining |-> 0],
              [kind |-> "network_error", remaining |-> 0]}

NoResponse == [kind |-> "none", remaining |-> 0]

\* data["resources"].get("core").get("remaining")
Remaining(resp) ==
    IF resp.kind = "ok" THEN RetInt(resp.remaining)
    ELSE IF resp.kind = "no_resources" THEN Raised("KeyError")
    ELSE Raised("ConnectionError")

-----------------------------------------------------------------------------
(* The credential store and the rate-limit reporter, one call at a time *)

OtherContent == <<"x">>

\* What may lie under credential_dir before the first call: nothing, or a
\* directory holding any of a credential file and a foreign file.
InitialFs ==
    {NoFs}
    \cup {[exists |-> TRUE, entries |-> NoEntries, ino |-> NoContent]}
    \cup {[exists |-> TRUE,
           entries |-> [NoEntries EXCEPT ![OtherName] = 0],
           ino |-> [NoContent EXCEPT ![0] = OtherContent]]}
    \cup {[exists |-> TRUE,
           entries |-> [NoEntries EXCEPT ![filename] = 1],
           ino |-> [NoContent EXCEPT ![1] = c]] : c \in Tokens}
    \cup {[exists |-> TRUE,
           entries |-> [NoEntries EXCEPT ![OtherName] = 0, ![filename] = 1],
           ino |-> [NoContent EXCEPT ![0] = OtherContent, ![1] = c]] : c \in Tokens}

NeverAdded == [status |-> "never", tok |-> <<>>]
NothingBefore == [hadCred |-> FALSE, hadOther |-> FALSE]

ConcIdle ==
    /\ procs = <<>>
    /\ chk = [pc |-> "idle", fd |-> NoIno, ret |-> NotCalled]
    /\ wlog = <<>>

LimitIdle ==
    /\ limit = [some |-> FALSE, val |-> 0]
    /\ all = FALSE
    /\ lim = [called |-> FALSE, some |-> FALSE, val |-> 0]

AnchorIdle ==
    /\ html_data = <<>>
    /\ apc = "idle"
    /\ first = [raised |-> FALSE, html |-> <<>>]
    /\ second = [raised |-> FALSE, html |-> <<>>]

WebIdle == web = [pc |-> "idle"]

CredIdle ==
    /\ fs = NoFs
    /\ lastOp = "none"
    /\ ret = NotCalled
    /\ lastAdd = NeverAdded
    /\ before = NothingBefore
    /\ sent = <<>>
    /\ response = NoResponse

CredInit ==
    /\ fs \in InitialFs
    /\ lastOp = "none"
    /\ ret = NotCalled
    /\ lastAdd = NeverAdded
    /\ before = NothingBefore
    /\ sent = <<>>
    /\ response = NoResponse
    /\ ConcIdle /\ LimitIdle /\ AnchorIdle /\ WebIdle

notCred == <<procs, chk, wlog, limit, all, lim, html_data, apc, first, second, web>>

AddCredential ==
    \E credential \in Tokens, fault \in Faults :
        /\ fault = "rmtree" => ExistsDir(fs)
        /\ LET r == add_credential(fs, credential, fault)
           IN  /\ fs' = r.fs
               /\ ret' = r.ret
               /\ lastAdd' = IF r.ret.kind = "raise"
                              THEN [status |-> fault, tok |-> <<>>]
                              ELSE [status |-> "ok", tok |-> credential]
        /\ before' = [hadCred |-> ExistsFile(fs),
                      hadOther |-> fs.exists /\ fs.entries[OtherName] # NoIno]
        /\ lastOp' = "add"
        /\ sent' = <<>>
        /\ response' = NoResponse
        /\ UNCHANGED notCred

CheckCredential ==
    /\ ret' = check_credential(fs)
    /\ lastOp' = "check"
    /\ sent' = <<>>
    /\ response' = NoResponse
    /\ UNCHANGED <<fs, lastAdd, before>>
    /\ UNCHANGED notCred

GhRateLimit ==
    \E resp \in Responses :
        LET token == check_credential(fs)
        IN  /\ sent' = <<[method |-> "GET", url |-> RateLimitUrl,
                          headers |-> request_headers(token)]>>
            /\ response' = resp
            /\ ret' = Remaining(resp)
            /\ lastOp' = "rate"
            /\ UNCHANGED <<fs, lastAdd, before>>
            /\ UNCHANGED notCred

CredNext == AddCredential \/ CheckCredential \/ GhRateLimit

SpecCred == CredInit /\ [][CredNext]_vars

-----------------------------------------------------------------------------
(* Two add_credential calls and a check_credential call running at once,  *)
(* each filesystem call a step of its own                                  *)

Adders == {1, 2}
PrevToken == <<"p", "p", "p">>
ConcTokens == {<<"a">>, <<"b", "b">>}

PrevFs == [exists |-> TRUE,
           entries |-> [NoEntries EXCEPT ![filename] = 0],
           ino |-> [NoContent EXCEPT ![0] = PrevToken]]

ConcInit ==
    /\ fs \in {NoFs, PrevFs}
    /\ procs \in [Adders -> [pc : {"exists"}, tok : ConcTokens, fd : {NoIno},
                             scan : {{}}, exc : {"none"}]]
    /\ chk = [pc |-> "exists", fd |-> NoIno, ret |-> NotCalled]
    /\ wlog = <<>>
    /\ lastOp = "none"
    /\ ret = NotCalled
    /\ lastAdd = NeverAdded
    /\ before = NothingBefore
    /\ sent = <<>>
    /\ response = NoResponse
    /\ LimitIdle /\ AnchorIdle /\ WebIdle

notConc == <<lastOp, ret, lastAdd, before, sent, response, limitVars, anchorVars, web>>

OpenFds == ({procs[p].fd : p \in Adders} \cup {chk.fd}) \ {NoIno}

Goto(p, pc) == procs' = [procs EXCEPT ![p].pc = pc]
Fail(p, e) == procs' = [procs EXCEPT ![p].pc = "failed", ![p].exc = e]

\* if os.path.exists(credential_dir):
AddExists(p) ==
    /\ procs[p].pc = "exists"
    /\ Goto(p, IF ExistsDir(fs) THEN "rm_scan" ELSE "mkdir")
    /\ UNCHANGED <<fs, chk, wlog>>
    /\ UNCHANGED notConc

\* shutil.rmtree: list the directory
AddRmScan(p) ==
    /\ procs[p].pc = "rm_scan"
    /\ IF fs.exists
       THEN procs' = [procs EXCEPT ![p].pc = "rm_unlink",
                                   ![p].scan = {n \in Names : fs.entries[n] # NoIno}]
       ELSE Fail(p, "FileNotFoundError")
    /\ UNCHANGED <<fs, chk, wlog>>
    /\ UNCHANGED notConc

\* shutil.rmtree: unlink the entries it listed
AddRmUnlink(p) ==
    /\ procs[p].pc = "rm_unlink"
    /\ IF fs.exists /\ \A n \in procs[p].scan : fs.entries[n] # NoIno
       THEN /\ fs' = Collect([fs EXCEPT !.entries = [n \in Names |->
                         IF n \in procs[p].scan THEN NoIno ELSE fs.entries[n]]],
                             OpenFds)
            /\ Goto(p, "rm_rmdir")
       ELSE /\ Fail(p, "FileNotFoundError")
            /\ UNCHANGED fs
    /\ UNCHANGED <<chk, wlog>>
    /\ UNCHANGED notConc

\* shutil.rmtree: remove the directory, which must be empty
AddRmRmdir(p) ==
    /\ procs[p].pc = "rm_rmdir"
    /\ IF ~fs.exists
       THEN Fail(p, "FileNotFoundError") /\ UNCHANGED fs
       ELSE IF \E n \in Names : fs.entries[n] # NoIno
       THEN Fail(p, "OSError") /\ UNCHANGED fs
       ELSE fs' = [fs EXCEPT !.exists = FALSE] /\ Goto(p, "mkdir")
    /\ UNCHANGED <<chk, wlog>>
    /\ UNCHANGED notConc

\* os.mkdir(credential_dir)
AddMkdir(p) ==
    /\ procs[p].pc = "mkdir"
    /\ IF fs.exists
       THEN Fail(p, "FileExistsError") /\ UNCHANGED fs
       ELSE fs' = Mkdir(fs) /\ Goto(p, "open")
    /\ UNCHANGED <<chk, wlog>>
    /\ UNCHANGED notConc

\* open(credential_file, "w+")
AddOpen(p) ==
    /\ procs[p].pc = "open"
    /\ IF fs.exists
       THEN /\ fs' = Collect(OpenTrunc(fs, OpenFds), OpenFds)
            /\ procs' = [procs EXCEPT ![p].pc = "write",
                                      ![p].fd = OpenTruncIno(fs, OpenFds)]
       ELSE Fail(p, "FileNotFoundError") /\ UNCHANGED fs
    /\ UNCHANGED <<chk, wlog>>
    /\ UNCHANGED notConc

\* cred.write(credential), flushed as the with block closes the file
AddWrite(p) ==
    /\ procs[p].pc = "write"
    /\ fs' = Collect(WriteAt0(fs, procs[p].fd, TextWrite(procs[p].tok)),
                     OpenFds \ {procs[p].fd})
    /\ procs' = [procs EXCEPT ![p].pc = "done", ![p].fd = NoIno]
    /\ wlog' = Append(wlog, p)
    /\ UNCHANGED chk
    /\ UNCHANGED notConc

\* if os.path.exists(credential_file):
ChkExists ==
    /\ chk.pc = "exists"
    /\ chk' = IF ExistsFile(fs) THEN [chk EXCEPT !.pc = "open"]
              ELSE [chk EXCEPT !.pc = "done", !.ret = RetFalse]
    /\ UNCHANGED <<fs, procs, wlog>>
    /\ UNCHANGED notConc

\* open(credential_file)
ChkOpen ==
    /\ chk.pc = "open"
    /\ chk' = IF ExistsFile(fs)
              THEN [chk EXCEPT !.pc = "read", !.fd = fs.entries[filename]]
              ELSE [chk EXCEPT !.pc = "done", !.ret = Raised("FileNotFoundError")]
    /\ UNCHANGED <<fs, procs, wlog>>
    /\ UNCHANGED notConc

\* return cred.readline()
ChkRead ==
    /\ chk.pc = "read"
    /\ chk' = [pc |-> "done", fd |-> NoIno,
               ret |-> RetStr(ReadLine(TextRead(fs.ino[chk.fd])))]
    /\ fs' = Collect(fs, OpenFds \ {chk.fd})
    /\ UNCHANGED <<procs, wlog>>
    /\ UNCHANGED notConc

ConcNext ==
    \/ \E p \in Adders : AddExists(p)
    \/ \E p \in Adders : AddRmScan(p)
    \/ \E p \in Adders : AddRmUnlink(p)
    \/ \E p \in Adders : AddRmRmdir(p)
    \/ \E p \in Adders : AddMkdir(p)
    \/ \E p \in Adders : AddOpen(p)
    \/ \E p \in Adders : AddWrite(p)
    \/ ChkExists \/ ChkOpen \/ ChkRead

SpecConc == ConcInit /\ [][ConcNext]_vars

-----------------------------------------------------------------------------
(* identify_limit *)

MaxLimit == 15
DefaultLimit == 10

NoLimit == [some |-> FALSE, val |-> 0]
SomeLimit(n) == [some |-> TRUE, val |-> n]

\* Optional[int]: None, or an integer (negative ones and 0 included)
LimitArgs == {NoLimit} \cup {SomeLimit(n) : n \in (0 - MaxLimit) .. MaxLimit}

\* identify_limit that looks at the all flag first
identify_limit_all_first(l, a) ==
    IF a THEN NoLimit
    ELSE IF l.some /\ l.val # 0 THEN l
    ELSE SomeLimit(DefaultLimit)

\* `if limit:` is Python's truth value: None and 0 are false.
identify_limit(l, a) ==
    IF l.some /\ l.val # 0 THEN l
    ELSE IF a THEN NoLimit
    ELSE SomeLimit(DefaultLimit)

LimitInit ==
    /\ limit \in LimitArgs
    /\ all \in BOOLEAN
    /\ lim = [called |-> FALSE, some |-> FALSE, val |-> 0]
    /\ CredIdle /\ ConcIdle /\ AnchorIdle /\ WebIdle

IdentifyLimit ==
    /\ ~lim.called
    /\ LET r == identify_limit(limit, all)
       IN  lim' = [called |-> TRUE, some |-> r.some, val |-> r.val]
    /\ UNCHANGED <<limit, all>>
    /\ UNCHANGED <<credVars, concVars, anchorVars, web>>

SpecLimit == LimitInit /\ [][IdentifyLimit]_vars

-----------------------------------------------------------------------------
(* add_anchor_tag *)

MaxCells == 3

\* HTML is a sequence of lexical atoms.  No atom but NL holds a line break,
\* and "<td>", "https" and "</td>" occur in the text only as these atoms.
TD == "<td>"
ETD == "</td>"
HTTPS == "https"
NL == "\n"
UrlA == "://a"
UrlB == "://b"
Txt == "txt"
Blank == " "
BackslashQ == "\\q"
AOpen == "<a target='_blank' href='"
AMid == "'>"
AClose == "</a>"

UrlAtoms == {UrlA, UrlB}

Segments ==
    { <<TD, HTTPS, UrlA, ETD>>,
      <<TD, HTTPS, UrlB, ETD>>,
      <<TD, Txt, ETD>>,
      <<TD, Blank, HTTPS, UrlA, ETD>>,
      <<TD, BackslashQ, ETD>>,
      <<NL>> }

RECURSIVE Fragments(_)
Fragments(n) ==
    IF n = 0 THEN {<<>>}
    ELSE LET shorter == Fragments(n - 1)
         IN  shorter \cup {h \o g : h \in shorter, g \in Segments}

Max(S) == CHOOSE x \in S : \A y \in S : y <= x
Min(S) == CHOOSE x \in S : \A y \in S : x <= y

\* re.compile(r"<td>(https.+)<\/td>") tried at position i: the position of
\* the match's "</td>", or 0.  ".+" is greedy and matches no line break.
PatternMatch(s, i) ==
    IF i + 1 <= Len(s) /\ s[i] = TD /\ s[i + 1] = HTTPS
    THEN LET ends == {j \in (i + 3) .. Len(s) :
                         s[j] = ETD /\ \A k \in (i + 2) .. (j - 1) : s[k] # NL}
         IN  IF ends = {} THEN 0 ELSE Max(ends)
    ELSE 0

\* re.findall(pattern, html_data): group 1 of every match, left to right,
\* the matches not overlapping
RECURSIVE FindAllFrom(_, _)
FindAllFrom(s, i) ==
    IF i > Len(s) THEN <<>>
    ELSE LET j == PatternMatch(s, i)
         IN  IF j = 0 THEN FindAllFrom(s, i + 1)
             ELSE <<SubSeq(s, i + 1, j - 1)>> \o FindAllFrom(s, j + 1)

FindAll(s) == FindAllFrom(s, 1)

\* re.sub(pattern, url, html_data): every match replaced by url
RECURSIVE SubFrom(_, _, _)
SubFrom(url, s, i) ==
    IF i > Len(s) THEN <<>>
    ELSE LET j == PatternMatch(s, i)
         IN  IF j = 0 THEN <<s[i]>> \o SubFrom(url, s, i + 1)
             ELSE url \o SubFrom(url, s, j + 1)

Sub(url, s) == SubFrom(url, s, 1)

\* re.sub parses url as a replacement template: a backslash followed by a
\* letter that is no known escape is re.error("bad escape").
BadEscape(url) == \E i \in 1 .. Len(url) : url[i] = BackslashQ

\* f"<td><a target='_blank' href='{item}'>{item}</a></td>"
Url(item) == <<TD, AOpen>> \o item \o <<AMid>> \o item \o <<AClose, ETD>>

AnchorOk(h) == [raised |-> FALSE, html |-> h]
AnchorRaised == [raised |-> TRUE, html |-> <<>>]

\* for item in matches: html_data = re.sub(pattern, url, html_data)
RECURSIVE AnchorLoop(_, _)
AnchorLoop(matches, h) ==
    IF matches = <<>> THEN AnchorOk(h)
    ELSE LET url == Url(Head(matches))
         IN  IF BadEscape(url) THEN AnchorRaised
             ELSE AnchorLoop(Tail(matches), Sub(url, h))

add_anchor_tag(h) == AnchorLoop(FindAll(h), h)

AnchorInit ==
    /\ html_data \in Fragments(MaxCells)
    /\ apc = "in"
    /\ first = AnchorOk(<<>>)
    /\ second = AnchorOk(<<>>)
    /\ CredIdle /\ ConcIdle /\ LimitIdle /\ WebIdle

AnchorOnce ==
    /\ apc = "in"
    /\ first' = add_anchor_tag(html_data)
    /\ apc' = "once"
    /\ UNCHANGED <<html_data, second>>
    /\ UNCHANGED <<credVars, concVars, limitVars, web>>

\* add_anchor_tag applied to its own output
AnchorTwice ==
    /\ apc = "once"
    /\ ~first.raised
    /\ second' = add_anchor_tag(first.html)
    /\ apc' = "twice"
    /\ UNCHANGED <<html_data, first>>
    /\ UNCHANGED <<credVars, concVars, limitVars, web>>

AnchorNext == AnchorOnce \/ AnchorTwice

SpecAnchor == AnchorInit /\ [][AnchorNext]_vars

-----------------------------------------------------------------------------
(* web_server *)

MaxWebCells == 2
MaxRequests == 1

TemplateHead == "<!DOCTYPE html>...<h1>Good First Issues</h1>"
TemplateTail == "</body></html>"
Stale == "stale"
ServingMsg == "serving at port 8000"
StoppedMsg == "\nServer stopped"
NotFound == <<"404">>

\* html_template.format(table=url_data)
html_template(table) == <<TemplateHead>> \o table \o <<TemplateTail>>

\* The working directory as the call finds it: index.html may lie there
\* already, the directory or that file may be read-only; and whether port
\* 8000 is free.
WebInit ==
    /\ \E h \in Fragments(MaxWebCells), ex \in BOOLEAN, dw \in BOOLEAN,
          fw \in BOOLEAN, pf \in BOOLEAN :
          /\ ~ex => fw
          /\ web = [pc |-> "call", html_data |-> h, url_data |-> <<>>,
                    exists |-> ex,
                    content |-> IF ex THEN <<Stale>> ELSE <<>>,
                    dirWritable |-> dw, fileWritable |-> fw, portFree |-> pf,
                    listening |-> FALSE, served |-> 0, lastResponse |-> <<>>,
                    exc |-> "none", error |-> "none", interruptedAt |-> "none",
                    printed |-> <<>>, removeCalled |-> FALSE]
    /\ CredIdle /\ ConcIdle /\ LimitIdle /\ AnchorIdle

notWeb == <<credVars, concVars, limitVars, anchorVars>>

\* An exception raised inside the try block: to the except clause when it
\* is a KeyboardInterrupt, to the finally clause otherwise.
RaiseInTry(w, e) == [w EXCEPT !.exc = e, !.error = e, !.listening = FALSE,
                               !.pc = "finally"]

\* url_data = add_anchor_tag(html_data), before the try block
WebAnchor ==
    /\ web.pc = "call"
    /\ LET r == add_anchor_tag(web.html_data)
       IN  web' = IF r.raised
                  THEN [web EXCEPT !.exc = "re.error", !.error = "re.error",
                                   !.pc = "done"]
                  ELSE [web EXCEPT !.url_data = r.html, !.pc = "open"]
    /\ UNCHANGED notWeb

CanOpen(w) == IF w.exists THEN w.fileWritable ELSE w.dirWritable

\* open(filename, "w+")
WebOpen ==
    /\ web.pc = "open"
    /\ \/ /\ CanOpen(web)
          /\ web' = [web EXCEPT !.exists = TRUE, !.content = <<>>, !.pc = "write"]
       \/ web' = RaiseInTry(web, "open:OSError")
    /\ UNCHANGED notWeb

\* file.write(html_template.format(table=url_data)) and the close
WebWrite ==
    /\ web.pc = "write"
    /\ \/ web' = [web EXCEPT !.content = html_template(web.url_data), !.pc = "bind"]
       \/ web' = RaiseInTry(web, "write:OSError")
    /\ UNCHANGED notWeb

\* socketserver.TCPServer(("localhost", PORT), Handler); print("serving at port", PORT)
WebBind ==
    /\ web.pc = "bind"
    /\ \/ /\ web.portFree
          /\ web' = [web EXCEPT !.listening = TRUE,
                                !.printed = Append(@, ServingMsg), !.pc = "serve"]
       \/ web' = RaiseInTry(web, "bind:OSError")
    /\ UNCHANGED notWeb

\* httpd.serve_forever() answering GET /
WebHandleRequest ==
    /\ web.pc = "serve"
    /\ web.served < MaxRequests
    /\ web' = [web EXCEPT !.served = @ + 1,
                          !.lastResponse = IF web.exists THEN web.content ELSE NotFound]
    /\ UNCHANGED notWeb

\* httpd.serve_forever() returns, or raises an error
WebServeEnd ==
    /\ web.pc = "serve"
    /\ \/ web' = [web EXCEPT !.listening = FALSE, !.pc = "finally"]
       \/ web' = RaiseInTry(web, "serve:OSError")
    /\ UNCHANGED notWeb

TryBlock == {"open", "write", "bind", "serve"}

\* A user interrupt while the try block runs
WebInterrupt ==
    /\ web.pc \in TryBlock
    /\ web' = [web EXCEPT !.exc = "KeyboardInterrupt", !.interruptedAt = web.pc,
                          !.listening = FALSE, !.pc = "except"]
    /\ UNCHANGED notWeb

\* except KeyboardInterrupt: print("\nServer stopped")
WebExcept ==
    /\ web.pc = "except"
    /\ web' = [web EXCEPT !.exc = "none", !.printed = Append(@, StoppedMsg),
                          !.pc = "finally"]
    /\ UNCHANGED notWeb

\* finally: os.remove(filename).  An error of os.remove replaces the one in
\* flight.
WebFinally ==
    /\ web.pc = "finally"
    /\ web' = IF web.exists /\ web.dirWritable
              THEN [web EXCEPT !.exists = FALSE, !.content = <<>>,
                               !.removeCalled = TRUE, !.pc = "done"]
              ELSE [web EXCEPT !.exc = IF web.exists THEN "remove:PermissionError"
                                       ELSE "remove:FileNotFoundError",
                               !.removeCalled = TRUE, !.pc = "done"]
    /\ UNCHANGED notWeb

WebNext ==
    \/ WebAnchor \/ WebOpen \/ WebWrite \/ WebBind \/ WebHandleRequest
    \/ WebServeEnd \/ WebInterrupt \/ WebExcept \/ WebFinally

SpecWeb == WebInit /\ [][WebNext]_vars

-----------------------------------------------------------------------------
(* Properties of the credential store and the rate-limit reporter *)

Terminators == {LF, CR}
NoTerminator(t) == \A i \in 1 .. Len(t) : t[i] \notin Terminators
FirstTerminator(t) ==
    CHOOSE i \in 1 .. Len(t) :
        t[i] \in Terminators /\ \A j \in 1 .. (i - 1) : t[j] \notin Terminators

StoredThenLoaded == lastOp = "check" /\ lastAdd.status = "ok"

\* C2 (as stated): add_credential(T) followed by check_credential() returns
\* exactly T, for every token T.
C2_RoundTripExact == StoredThenLoaded => ret = RetStr(lastAdd.tok)

\* C2 (amended): add_credential(T) followed by check_credential() returns
\* exactly T when T holds no line terminator; otherwise it returns only T's
\* first line, that is T up to its first "\n" or "\r", ended by "\n".
C2_RoundTripFirstLine ==
    StoredThenLoaded =>
        /\ ret.kind = "str"
        /\ NoTerminator(lastAdd.tok) => ret.val = lastAdd.tok
        /\ ~NoTerminator(lastAdd.tok) =>
              ret.val = Append(Take(lastAdd.tok, FirstTerminator(lastAdd.tok) - 1), LF)

C2_Witness ==
    /\ StoredThenLoaded
    /\ lastAdd.tok = <<"a", "b">>
    /\ ret = RetStr(<<"a", "b">>)

LinkedNames(f) == {n \in Names : f.entries[n] # NoIno}

\* C3: after a successful add_credential the credential directory holds
\* exactly one file, the credential file, whose whole content is the token
\* of the most recent call; nothing that was there before remains.
C3_SingleCredential ==
    lastAdd.status = "ok" =>
        /\ fs.exists
        /\ LinkedNames(fs) = {filename}
        /\ FileContent(fs) = lastAdd.tok

C3_Witness ==
    /\ lastAdd.status = "ok"
    /\ before.hadCred /\ before.hadOther
    /\ lastAdd.tok = <<"b">>
    /\ LinkedNames(fs) = {filename}

TokenPrefix == <<"t", "o", "k", "e", "n", " ">>

OneGet ==
    /\ Len(sent) = 1
    /\ sent[1].method = "GET"
    /\ sent[1].url = "https://api.github.com/rate_limit"

ReturnsRemaining == response.kind = "ok" => ret = RetInt(response.remaining)

\* C7 (as stated): gh_rate_limit issues one GET; the request carries
\* "Authorization: token <stored token>" whenever a credential is stored and
\* no Authorization header otherwise; the call returns
\* resources.core.remaining.
C7_HeaderWheneverStored ==
    lastOp = "rate" =>
        /\ OneGet
        /\ ExistsFile(fs) =>
              /\ sent[1].headers.hasAuth
              /\ sent[1].headers.auth = TokenPrefix \o FileContent(fs)
        /\ ~ExistsFile(fs) => ~sent[1].headers.hasAuth
        /\ ReturnsRemaining

\* C7 (amended): gh_rate_limit issues one GET; the request carries
\* "Authorization: token <stored token>" when the stored token is not empty
\* and holds no line terminator, and no Authorization header when no
\* credential is stored or the stored token is empty; the call returns
\* resources.core.remaining.
C7_HeaderWhenNonEmpty ==
    lastOp = "rate" =>
        /\ OneGet
        /\ (ExistsFile(fs) /\ FileContent(fs) # <<>> /\ NoTerminator(FileContent(fs))) =>
              /\ sent[1].headers.hasAuth
              /\ sent[1].headers.auth = TokenPrefix \o FileContent(fs)
        /\ (~ExistsFile(fs) \/ FileContent(fs) = <<>>) => ~sent[1].headers.hasAuth
        /\ ReturnsRemaining

C7_Witness ==
    /\ lastOp = "rate"
    /\ lastAdd = [status |-> "ok", tok |-> <<"a", "b">>]
    /\ sent[1].headers = [hasAuth |-> TRUE, auth |-> TokenPrefix \o <<"a", "b">>]
    /\ response = [kind |-> "ok", remaining |-> 1]
    /\ ret = RetInt(1)

\* C8: check_credential returns False, and raises nothing, whenever no
\* credential file exists: before any add_credential, and after an
\* add_credential that failed between removing the old directory and
\* creating the new file.
C8_AbsentIsFalse == (lastOp = "check" /\ ~ExistsFile(fs)) => ret = RetFalse

C8_Witness ==
    /\ lastOp = "check"
    /\ lastAdd.status \in {"mkdir", "open"}
    /\ before.hadCred
    /\ ~ExistsFile(fs)
    /\ ret = RetFalse

-----------------------------------------------------------------------------
(* Properties of concurrent calls *)

AddersEnded == \A p \in Adders : procs[p].pc \in {"done", "failed"}
AllEnded == AddersEnded /\ chk.pc = "done"
BothStored == \A p \in Adders : procs[p].pc = "done"
LastWriter == wlog[Len(wlog)]
GivenTokens == {procs[p].tok : p \in Adders}

\* C10 (as stated): both concurrent add_credential calls complete without
\* error and the credential file finally holds exactly the token of the
\* call that wrote last; a concurrent check_credential returns one of the
\* two tokens, the previously stored token or False, never an error and
\* never an empty or partial token.
C10_LastWriteWins ==
    AllEnded =>
        /\ BothStored
        /\ ExistsFile(fs)
        /\ FileContent(fs) = procs[LastWriter].tok
        /\ chk.ret \in {RetFalse, RetStr(PrevToken)} \cup {RetStr(t) : t \in GivenTokens}

\* x written from the start of a file that holds y
Over(x, y) == x \o SubSeq(y, Len(x) + 1, Len(y))

Mixed == GivenTokens \cup {Over(x, y) : x \in GivenTokens, y \in GivenTokens}

\* C10 (amended): a concurrent add_credential call may fail; when both calls
\* complete without error the credential file exists and holds one of the
\* two tokens or one of them written over the start of the other; a
\* concurrent check_credential returns False, or the first line of what the
\* file held when it was read (one of those contents, the previously stored
\* token, or the empty string), or raises FileNotFoundError.
C10_RacingStores ==
    /\ (AddersEnded /\ BothStored) => (ExistsFile(fs) /\ FileContent(fs) \in Mixed)
    /\ chk.pc = "done" =>
          chk.ret \in {RetFalse, Raised("FileNotFoundError")}
                        \cup {RetStr(c) : c \in Mixed \cup {PrevToken, <<>>}}

C10_Witness ==
    /\ AllEnded /\ BothStored
    /\ procs[1].tok = <<"a">> /\ procs[2].tok = <<"b", "b">>
    /\ FileContent(fs) = <<"a", "b">>
    /\ chk.ret = Raised("FileNotFoundError")

-----------------------------------------------------------------------------
(* Properties of identify_limit *)

Present(l) == l.some /\ l.val # 0
LimitResult == [some |-> lim.some, val |-> lim.val]

\* C5: identify_limit returns limit unchanged when it is present (not None,
\* not 0), otherwise None when all is true, otherwise 10: an explicit limit
\* wins over the all flag.
C5_ExplicitWins ==
    lim.called =>
        /\ Present(limit) => LimitResult = limit
        /\ (~Present(limit) /\ all) => ~lim.some
        /\ (~Present(limit) /\ ~all) => (lim.some /\ lim.val = 10)

C5_Witness ==
    /\ lim.called
    /\ limit = SomeLimit(5) /\ all
    /\ LimitResult = SomeLimit(5)

-----------------------------------------------------------------------------
(* Properties of add_anchor_tag *)

\* A cell whose entire content is a bare https URL, starting at position i:
\* the position of its "</td>", or 0.
BareUrlCell(s, i) ==
    IF i + 1 <= Len(s) /\ s[i] = TD /\ s[i + 1] = HTTPS
    THEN LET ends == {j \in (i + 2) .. Len(s) : s[j] = ETD}
         IN  IF ends = {} THEN 0
             ELSE LET j == Min(ends)
                  IN  IF j >= i + 3 /\ \A k \in (i + 2) .. (j - 1) : s[k] \in UrlAtoms
                      THEN j ELSE 0
    ELSE 0

\* Every bare-URL cell rewritten to an anchor on its own URL, the rest kept.
RECURSIVE EachCellAnchored(_, _)
EachCellAnchored(s, i) ==
    IF i > Len(s) THEN <<>>
    ELSE LET j == BareUrlCell(s, i)
         IN  IF j = 0 THEN <<s[i]>> \o EachCellAnchored(s, i + 1)
             ELSE <<TD, AOpen>> \o SubSeq(s, i + 1, j - 1) \o <<AMid>>
                    \o SubSeq(s, i + 1, j - 1) \o <<AClose, ETD>>
                    \o EachCellAnchored(s, j + 1)

\* C4: add_anchor_tag rewrites each cell whose entire content is a bare
\* https URL to <td><a target='_blank' href='U'>U</a></td> with U that
\* cell's own URL, and leaves every other part of the input untouched.
C4_EachCellOwnUrl ==
    apc \in {"once", "twice"} =>
        first = [raised |-> FALSE, html |-> EachCellAnchored(html_data, 1)]

\* C6: add_anchor_tag applied to its own output returns that output
\* unchanged.
C6_Idempotent == apc = "twice" => second = first

-----------------------------------------------------------------------------
(* Properties of web_server *)

\* C1: however web_server ends, index.html does not exist once it has
\* finished, and the removal step has been executed.
C1_AlwaysRemoved == web.pc = "done" => (~web.exists /\ web.removeCalled)

\* The filesystem and socket errors of the try block
SystemErrors == {"open:OSError", "write:OSError", "bind:OSError", "serve:OSError"}

\* C9: an interrupt arriving while the listener is serving is caught, the
\* stop message is printed, index.html is deleted and web_server returns
\* normally; any other error reaches the caller as that same error, after
\* the cleanup step.
C9_OnlyInterruptHandled ==
    web.pc = "done" =>
        /\ web.interruptedAt = "serve" =>
              /\ web.printed = <<ServingMsg, StoppedMsg>>
              /\ ~web.exists
              /\ web.exc = "none"
        /\ web.error \in SystemErrors => (web.exc = web.error /\ web.removeCalled)

=============================================================================
